---- MODULE Spec2Model ----
(***************************************************************************)
(* The Interview Call Session Controller: the Agent component of           *)
(* src/components/Agent.tsx together with the createFeedback server action *)
(* (src/constants/index.ts, lines 305-369) it calls when a call finishes.  *)
(*                                                                         *)
(* One behaviour is the life of one mounted Agent instance.  The props are *)
(* chosen in Init and never change.  The voice transport (the vapi         *)
(* singleton) is an opaque event source: while a listener is registered    *)
(* it may deliver any event at any time, since the singleton is shared by  *)
(* every call of the page.                                                 *)
(*                                                                         *)
(* Every action is one handler run to completion, followed by the React    *)
(* render it schedules and by the second useEffect (lines 98-133) when one *)
(* of its dependencies changed in that render.  React may also render once *)
(* for several handlers; the effect then runs once with the state all of   *)
(* them left, which is the state of one of the renders modelled here.      *)
(***************************************************************************)
EXTENDS Naturals, Sequences, FiniteSets, TLC

\* ------------------------------------------------------------ bounds
\* Transport events emitted in one behaviour.
MaxEvents == 3
\* Message events among them.
MaxMessages == 3
\* Clicks on the start button in one behaviour.
MaxStarts == 2

\* ------------------------------------------------------------ values
\* enum CallStatus
INACTIVE == "INACTIVE"
CONNECTING == "CONNECTING"
ACTIVE == "ACTIVE"
FINISHED == "FINISHED"
CallStatus == {INACTIVE, CONNECTING, ACTIVE, FINISHED}

\* The values of the `type` prop: "generate", and the value of the
\* interview (feedback) flow, which the code only tests as "not generate".
AgentTypes == {"generate", "interview"}

\* An absent optional value (undefined).
Undefined == "undefined"

\* SavedMessage.role
Roles == {"user", "assistant"}
\* Texts a transcript event may carry.
Texts == {"Hi", "Hello"}

\* The message events the transport may deliver: final transcripts of every
\* role and text, a partial transcript, and a message of another type,
\* which carries no transcript.
FinalMessages ==
    [type : {"transcript"}, transcriptType : {"final"},
     role : Roles, transcript : Texts]
PartialMessages ==
    [type : {"transcript"}, transcriptType : {"partial"},
     role : {"user"}, transcript : {"Hi"}]
OtherMessages ==
    [type : {"function-call"}, transcriptType : {Undefined},
     role : {Undefined}, transcript : {Undefined}]
Messages == FinalMessages \cup PartialMessages \cup OtherMessages

\* interface SavedMessage
SavedMessage == [role : Roles, content : Texts]

\* Document ids of the feedback collection: the id given as the feedbackId
\* prop, and the ids the store generates for doc() without an argument.
PropFeedbackId == "fb-prop"
AutoId(n) == "auto" \o ToString(n)

\* Routes given to router.push.
Home == "/"
FeedbackRoute(id) == "/interview/" \o id \o "/feedback"

\* The optional questions prop: absent, or a list of strings.
NoQuestions == [given |-> FALSE, items |-> <<>>]
Given(items) == [given |-> TRUE, items |-> items]
OneQuestion == <<"Why this role?">>
TwoQuestions == <<"Tell me about yourself", "Why this role?">>

\* The first argument of vapi.start: the workflow id of the environment
\* (line 144) and the interviewer assistant of @/constants (line 161).
WorkflowId == "NEXT_PUBLIC_VAPI_WORKFLOW_ID"
Interviewer == "interviewer"

\* The (event name, handler) pairs of the first useEffect.
Subscriptions ==
    { <<"call-start", "onCallStart">>, <<"call-end", "onCallEnd">>,
      <<"message", "onMessage">>, <<"speech-start", "onSpeechStart">>,
      <<"speech-end", "onSpeechEnd">>, <<"error", "onError">> }

\* ------------------------------------------------------------ state
VARIABLES
    type,            \* prop: "generate" or the interview flow
    interviewId,     \* prop
    feedbackId,      \* prop: id of an existing feedback record, or Undefined
    userName,        \* prop
    userId,          \* prop
    questions,       \* prop: [given, items], the optional list of questions
    callStatus,      \* useState<CallStatus>
    messages,        \* useState<SavedMessage[]>
    isSpeaking,      \* useState(false)
    lastMessage,     \* useState<string>("")
    mounted,         \* the component is mounted
    listeners,       \* (event, handler) pairs registered on vapi
    startCalls,      \* calls of vapi.start
    startArgs,       \* the distinct argument lists vapi.start was called with
    stopCalls,       \* calls of vapi.stop
    gatewayCalls,    \* calls of createFeedback
    pendingFeedback, \* createFeedback promises not yet settled
    feedbackDocs,    \* ids of the documents of the feedback collection
    results,         \* the values createFeedback returned to the component
    navigations,     \* arguments of router.push, in call order
    logs,            \* distinct lines written with console.log / console.error
    unhandled,       \* a promise was rejected and nobody caught it
    emitted,         \* transport events emitted so far
    delivered        \* message events handed to the message listener, in order

vars == <<type, interviewId, feedbackId, userName, userId, questions,
                   callStatus, messages, isSpeaking,
          lastMessage, mounted, listeners, startCalls, startArgs, stopCalls,
          gatewayCalls, pendingFeedback, feedbackDocs, results, navigations, logs, unhandled, emitted, delivered>>

\* ------------------------------------------------------------ helpers
\* vapi.on for the six handlers (lines 79-84).
RegisterListeners(ls) == ls \cup Subscriptions

\* Mutant of CleanupListeners: the message listener is left registered.
CleanupListeners_KeepsMessage(ls) ==
    ls \ { <<"call-start", "onCallStart">>, <<"call-end", "onCallEnd">>,
           <<"speech-start", "onSpeechStart">>,
           <<"speech-end", "onSpeechEnd">>, <<"error", "onError">> }

\* The cleanup function of the first useEffect (lines 87-94).
CleanupListeners(ls) ==
    ls \ { <<"call-start", "onCallStart">>, <<"call-end", "onCallEnd">>,
           <<"message", "onMessage">>, <<"speech-start", "onSpeechStart">>,
           <<"speech-end", "onSpeechEnd">>, <<"error", "onError">> }

\* The test of onMessage (line 55).
IsFinalTranscript(m) == m.type = "transcript" /\ m.transcriptType = "final"

\* The SavedMessage onMessage builds (line 56).
NewMessage(m) == [role |-> m.role, content |-> m.transcript]

\* Mutant of AppendMessage: the new message is put first.
AppendMessage_Prepended(prev, m) == <<NewMessage(m)>> \o prev

\* setMessages((prev) => [...prev, newMessage]) (line 57).
AppendMessage(prev, m) == Append(prev, NewMessage(m))

\* questions.map((question) => `- ${question}`) (lines 155-156).
Bulleted(items) == [i \in 1..Len(items) |-> "- " \o items[i]]

\* Mutant of Join: every element is followed by sep, the last one too.
RECURSIVE Join_Trailing(_, _)
Join_Trailing(items, sep) ==
    IF Len(items) = 0 THEN ""
    ELSE items[1] \o sep \o Join_Trailing(Tail(items), sep)

\* Array.prototype.join: the elements with sep between neighbours.
RECURSIVE Join(_, _)
Join(items, sep) ==
    IF Len(items) = 0 THEN ""
    ELSE IF Len(items) = 1 THEN items[1]
    ELSE items[1] \o sep \o Join(Tail(items), sep)

\* formattedQuestions (lines 152-158).
FormatQuestions(qs) ==
    IF qs.given THEN Join(Bulleted(qs.items), "\n") ELSE ""

\* Mutant of StartArguments: the generate flow also passes the questions.
StartArguments_QuestionsAlways(t, name, uid, qs) ==
    IF t = "generate"
      THEN [target |-> WorkflowId,
            variableValues |-> [username |-> name, userid |-> uid,
                                questions |-> FormatQuestions(qs)]]
      ELSE [target |-> Interviewer,
            variableValues |-> [questions |-> FormatQuestions(qs)]]

\* The arguments handleCall gives vapi.start (lines 142-166).
StartArguments(t, name, uid, qs) ==
    IF t = "generate"
      THEN [target |-> WorkflowId,
            variableValues |-> [username |-> name, userid |-> uid]]
      ELSE [target |-> Interviewer,
            variableValues |-> [questions |-> FormatQuestions(qs)]]

\* The count of message events delivered so far.
MessageEvents == Len(delivered)

\* The props an Agent is mounted with: the generate flow without and with
\* a list of questions, the interview flow without and with an existing
\* feedback record and without, with an empty and with a filled list.
AgentProps ==
    { [type |-> "generate", interviewId |-> Undefined,
       feedbackId |-> Undefined, questions |-> NoQuestions],
      [type |-> "generate", interviewId |-> Undefined,
       feedbackId |-> Undefined, questions |-> Given(TwoQuestions)],
      [type |-> "interview", interviewId |-> "iv1",
       feedbackId |-> Undefined, questions |-> NoQuestions],
      [type |-> "interview", interviewId |-> "iv1",
       feedbackId |-> Undefined, questions |-> Given(TwoQuestions)],
      [type |-> "interview", interviewId |-> "iv1",
       feedbackId |-> PropFeedbackId, questions |-> Given(<<>>)],
      [type |-> "interview", interviewId |-> "iv1",
       feedbackId |-> PropFeedbackId, questions |-> Given(OneQuestion)] }

Init ==
    /\ \E p \in AgentProps :
          /\ type = p.type
          /\ interviewId = p.interviewId
          /\ feedbackId = p.feedbackId
          /\ questions = p.questions
    /\ userName = "Ada"
    /\ userId = "u1"
    /\ startArgs = {}
    /\ callStatus = INACTIVE
    /\ messages = <<>>
    /\ isSpeaking = FALSE
    /\ lastMessage = ""
    /\ mounted = TRUE
    /\ listeners = RegisterListeners({})
    /\ startCalls = 0
    /\ stopCalls = 0
    /\ gatewayCalls = 0
    /\ pendingFeedback = 0
    /\ feedbackDocs = (IF feedbackId = Undefined THEN {} ELSE {feedbackId})
    /\ results = {}
    /\ navigations = <<>>
    /\ logs = {}
    /\ unhandled = FALSE
    /\ emitted = 0
    /\ delivered = <<>>


\* ------------------------------------------------------------ rendering
\* Mutant of CallCompletionEffect: the flow is not tested, feedback is
\* generated whenever the call finished.
CallCompletionEffect_NoTypeTest(status, msgs, handlerLogs) ==
    /\ lastMessage' = (IF Len(msgs) > 0 THEN msgs[Len(msgs)].content
                                        ELSE lastMessage)
    /\ IF status = FINISHED
         THEN /\ gatewayCalls' = gatewayCalls + 1
              /\ pendingFeedback' = pendingFeedback + 1
              /\ logs' = logs \cup handlerLogs \cup {"handleGenerateFeedback"}
              /\ UNCHANGED navigations
         ELSE /\ logs' = logs \cup handlerLogs
              /\ UNCHANGED <<navigations, gatewayCalls, pendingFeedback>>

\* The body of the second useEffect (lines 98-133), run with the state of
\* the render that scheduled it.  handlerLogs are the lines the handler of
\* the same step wrote.
CallCompletionEffect(status, msgs, handlerLogs) ==
    /\ lastMessage' = (IF Len(msgs) > 0 THEN msgs[Len(msgs)].content
                                        ELSE lastMessage)
    /\ IF status = FINISHED
         THEN IF type = "generate"
                THEN /\ navigations' = Append(navigations, Home)
                     /\ logs' = logs \cup handlerLogs
                     /\ UNCHANGED <<gatewayCalls, pendingFeedback>>
                ELSE /\ gatewayCalls' = gatewayCalls + 1
                     /\ pendingFeedback' = pendingFeedback + 1
                     /\ logs' = logs \cup handlerLogs \cup {"handleGenerateFeedback"}
                     /\ UNCHANGED navigations
         ELSE /\ logs' = logs \cup handlerLogs
              /\ UNCHANGED <<navigations, gatewayCalls, pendingFeedback>>

\* The render after a handler: the effect runs when messages or callStatus,
\* the only dependencies of line 133 that can change, differ from the
\* previous render (a setter given the current value schedules nothing).
Render(status, msgs, handlerLogs) ==
    IF status # callStatus \/ msgs # messages
      THEN CallCompletionEffect(status, msgs, handlerLogs)
      ELSE /\ logs' = logs \cup handlerLogs
           /\ UNCHANGED <<lastMessage, navigations, gatewayCalls, pendingFeedback>>

\* ------------------------------------------------------------ handlers
\* Lines 43-45.
onCallStart ==
    /\ callStatus' = ACTIVE
    /\ UNCHANGED <<messages, isSpeaking>>
    /\ Render(ACTIVE, messages, {})

\* Mutant of onCallEnd: the end of the call is ignored while the assistant
\* is speaking.
onCallEnd_UnlessSpeaking ==
    /\ callStatus' = (IF isSpeaking THEN callStatus ELSE FINISHED)
    /\ UNCHANGED <<messages, isSpeaking>>
    /\ Render(callStatus', messages, {})

\* Lines 48-50.
onCallEnd ==
    /\ callStatus' = FINISHED
    /\ UNCHANGED <<messages, isSpeaking>>
    /\ Render(FINISHED, messages, {})

\* Mutant of onMessage: interim transcripts are appended too.
onMessage_AnyTranscript(m) ==
    /\ messages' = (IF m.type = "transcript" THEN AppendMessage(messages, m)
                                              ELSE messages)
    /\ UNCHANGED <<callStatus, isSpeaking>>
    /\ Render(callStatus, messages', {})

\* Mutant of onMessage: transcripts are kept only while the call is active.
onMessage_OnlyActive(m) ==
    /\ messages' = (IF IsFinalTranscript(m) /\ callStatus = ACTIVE
                        THEN AppendMessage(messages, m)
                        ELSE messages)
    /\ UNCHANGED <<callStatus, isSpeaking>>
    /\ Render(callStatus, messages', {})

\* Lines 53-59.
onMessage(m) ==
    /\ messages' = (IF IsFinalTranscript(m) THEN AppendMessage(messages, m)
                                            ELSE messages)
    /\ UNCHANGED <<callStatus, isSpeaking>>
    /\ Render(callStatus, messages', {})

\* Lines 62-65.
onSpeechStart ==
    /\ isSpeaking' = TRUE
    /\ UNCHANGED <<callStatus, messages>>
    /\ Render(callStatus, messages, {"speech start"})

\* Lines 68-71.
onSpeechEnd ==
    /\ isSpeaking' = FALSE
    /\ UNCHANGED <<callStatus, messages>>
    /\ Render(callStatus, messages, {"speech end"})

\* Mutant of onError: an error ends the call.
onError_Finishes ==
    /\ callStatus' = FINISHED
    /\ UNCHANGED <<messages, isSpeaking>>
    /\ Render(FINISHED, messages, {"Error:"})

\* Lines 74-76.
onError ==
    /\ UNCHANGED <<callStatus, messages, isSpeaking>>
    /\ Render(callStatus, messages, {"Error:"})

\* ------------------------------------------------------------ transport
\* What a transport event leaves alone whether or not a handler runs.
EventFrame ==
    UNCHANGED <<type, interviewId, feedbackId, userName, userId, questions,
                   mounted, listeners,
                startCalls, startArgs, stopCalls, feedbackDocs, results,
                unhandled>>

\* No listener is registered for the event: nothing of the component runs.
NotDelivered ==
    UNCHANGED <<callStatus, messages, isSpeaking, lastMessage, navigations,
                gatewayCalls, pendingFeedback, logs>>

\* The transport emits `name`; `handler` runs if it is registered for it.
Emit(name, handlerName, handler) ==
    /\ emitted < MaxEvents
    /\ emitted' = emitted + 1
    /\ EventFrame
    /\ IF <<name, handlerName>> \in listeners THEN handler ELSE NotDelivered

EmitCallStart ==
    Emit("call-start", "onCallStart", onCallStart) /\ UNCHANGED delivered

EmitCallEnd ==
    Emit("call-end", "onCallEnd", onCallEnd) /\ UNCHANGED delivered

EmitMessage(m) ==
    /\ MessageEvents < MaxMessages
    /\ Emit("message", "onMessage", onMessage(m))
    /\ delivered' = (IF <<"message", "onMessage">> \in listeners
                       THEN Append(delivered, m) ELSE delivered)

EmitSpeechStart ==
    Emit("speech-start", "onSpeechStart", onSpeechStart) /\ UNCHANGED delivered

EmitSpeechEnd ==
    Emit("speech-end", "onSpeechEnd", onSpeechEnd) /\ UNCHANGED delivered

EmitError ==
    Emit("error", "onError", onError) /\ UNCHANGED delivered

\* ------------------------------------------------------------ user actions
\* Mutant of handleCall: the Call button is offered only before the first
\* call.
handleCall_OnlyIdle(resolved) ==
    /\ mounted
    /\ callStatus = INACTIVE
    /\ startCalls < MaxStarts
    /\ callStatus' = CONNECTING
    /\ startCalls' = startCalls + 1
    /\ startArgs' = startArgs \cup
                        {StartArguments(type, userName, userId, questions)}
    /\ unhandled' = (unhandled \/ ~resolved)
    /\ Render(CONNECTING, messages, {})
    /\ UNCHANGED <<type, interviewId, feedbackId, userName, userId, questions,
                   messages, isSpeaking, mounted,
                   listeners, stopCalls, feedbackDocs, results, emitted,
                   delivered>>

\* The button of lines 233-250 is rendered while callStatus is not ACTIVE;
\* its click runs handleCall (lines 139-167).  Nothing follows the awaited
\* vapi.start and nothing catches its rejection (line 235), so the way the
\* promise settles, `resolved`, only decides whether a rejection is left
\* unhandled.
handleCall(resolved) ==
    /\ mounted
    /\ callStatus # ACTIVE
    /\ startCalls < MaxStarts
    /\ callStatus' = CONNECTING
    /\ startCalls' = startCalls + 1
    /\ startArgs' = startArgs \cup
                        {StartArguments(type, userName, userId, questions)}
    /\ unhandled' = (unhandled \/ ~resolved)
    /\ Render(CONNECTING, messages, {})
    /\ UNCHANGED <<type, interviewId, feedbackId, userName, userId, questions,
                   messages, isSpeaking, mounted,
                   listeners, stopCalls, feedbackDocs, results, emitted,
                   delivered>>

\* Mutant of handleDisconnect: the transport is not told to stop.
handleDisconnect_NoStop ==
    /\ mounted
    /\ callStatus = ACTIVE
    /\ callStatus' = FINISHED
    /\ Render(FINISHED, messages, {})
    /\ UNCHANGED <<type, interviewId, feedbackId, userName, userId, questions,
                   messages, isSpeaking, mounted, listeners, startCalls,
                   startArgs, stopCalls, feedbackDocs, results, unhandled,
                   emitted, delivered>>

\* The button of lines 251-255 is rendered while callStatus is ACTIVE; its
\* click runs handleDisconnect (lines 173-176).
handleDisconnect ==
    /\ mounted
    /\ callStatus = ACTIVE
    /\ callStatus' = FINISHED
    /\ stopCalls' = stopCalls + 1
    /\ Render(FINISHED, messages, {})
    /\ UNCHANGED <<type, interviewId, feedbackId, userName, userId, questions,
                   messages, isSpeaking, mounted,
                   listeners, startCalls, startArgs, feedbackDocs, results,
                   unhandled, emitted, delivered>>

\* The component unmounts: the cleanup of the first useEffect runs.
Unmount ==
    /\ mounted
    /\ mounted' = FALSE
    /\ listeners' = CleanupListeners(listeners)
    /\ UNCHANGED <<type, interviewId, feedbackId, userName, userId, questions,
                   callStatus, messages,
                   isSpeaking, lastMessage, startCalls, startArgs, stopCalls,
                   gatewayCalls, pendingFeedback, feedbackDocs, results,
                   navigations, logs, unhandled, emitted, delivered>>

\* ------------------------------------------------------------ feedback
\* Mutant of FeedbackRef: a new document is made even when an id was given.
FeedbackRef_AlwaysAuto(fid, docs) ==
    AutoId(Cardinality(docs \ {PropFeedbackId}) + 1)

\* The document createFeedback writes to (lines 351-358).
FeedbackRef(fid, docs) ==
    IF fid # Undefined THEN fid
                       ELSE AutoId(Cardinality(docs \ {PropFeedbackId}) + 1)

\* The value createFeedback returns (lines 305-369): scoringOk is whether
\* generateObject returned, writeOk whether feedbackRef.set did.
createFeedback(fid, docs, scoringOk, writeOk) ==
    IF scoringOk /\ writeOk
      THEN [success |-> TRUE, feedbackId |-> FeedbackRef(fid, docs)]
      ELSE [success |-> FALSE, feedbackId |-> Undefined]

\* The collection after the call.
FeedbackDocsAfter(fid, docs, scoringOk, writeOk) ==
    IF scoringOk /\ writeOk THEN docs \cup {FeedbackRef(fid, docs)} ELSE docs

\* The route handleGenerateFeedback pushes for a result (lines 117-122).
FeedbackNavigation(result, iid) ==
    IF result.success /\ result.feedbackId # Undefined
      THEN FeedbackRoute(iid)
      ELSE Home

\* Mutant of createFeedbackThrows: the failure of generateObject or of
\* feedbackRef.set leaves the function as an exception.
createFeedbackThrows_Uncaught(scoringOk, writeOk) == ~(scoringOk /\ writeOk)

\* Whether the call rejects: both awaits are inside the try of line 308 and
\* the catch of lines 364-368 returns a value for whatever was thrown.
createFeedbackThrows(scoringOk, writeOk) == FALSE

\* One createFeedback call settles and handleGenerateFeedback continues
\* after its await (lines 109-122); were the call to reject, nothing after
\* the await would run and nobody would catch the rejection (line 130).
createFeedbackReturns(scoringOk, writeOk) ==
    /\ pendingFeedback > 0
    /\ pendingFeedback' = pendingFeedback - 1
    /\ feedbackDocs' = FeedbackDocsAfter(feedbackId, feedbackDocs,
                                         scoringOk, writeOk)
    /\ IF createFeedbackThrows(scoringOk, writeOk)
         THEN /\ unhandled' = TRUE
              /\ UNCHANGED <<results, navigations, logs>>
         ELSE LET result == createFeedback(feedbackId, feedbackDocs,
                                           scoringOk, writeOk)
              IN  /\ results' = results \cup {result}
                  /\ navigations' = Append(navigations,
                                           FeedbackNavigation(result, interviewId))
                  /\ logs' = logs \cup
                        (IF result.success THEN {}
                                           ELSE {"Error saving feedback:"}) \cup
                        (IF result.success /\ result.feedbackId # Undefined
                           THEN {} ELSE {"Error saving feedback"})
                  /\ UNCHANGED unhandled
    /\ UNCHANGED <<type, interviewId, feedbackId, userName, userId, questions,
                   callStatus, messages,
                   isSpeaking, lastMessage, mounted, listeners, startCalls,
                   startArgs, stopCalls, gatewayCalls, emitted,
                   delivered>>

\* ------------------------------------------------------------ specification
Next ==
    \/ \E resolved \in BOOLEAN : handleCall(resolved)
    \/ handleDisconnect
    \/ EmitCallStart
    \/ EmitCallEnd
    \/ \E m \in Messages : EmitMessage(m)
    \/ EmitSpeechStart
    \/ EmitSpeechEnd
    \/ EmitError
    \/ \E scoringOk \in BOOLEAN, writeOk \in BOOLEAN :
           createFeedbackReturns(scoringOk, writeOk)
    \/ Unmount

Spec == Init /\ [][Next]_vars

\* The specification under which awaited results are delivered: a pending
\* createFeedback call eventually returns.  Nothing obliges the transport
\* to emit an event, nor the user to click.
FairSpec ==
    /\ Init
    /\ [][Next]_vars
    /\ WF_vars(\E scoringOk \in BOOLEAN, writeOk \in BOOLEAN :
                   createFeedbackReturns(scoringOk, writeOk))

\* ------------------------------------------------------------ properties
Range(seq) == { seq[i] : i \in 1..Len(seq) }

TypeOK ==
    /\ type \in AgentTypes
    /\ callStatus \in CallStatus
    /\ messages \in Seq(SavedMessage)
    /\ isSpeaking \in BOOLEAN
    /\ mounted \in BOOLEAN
    /\ listeners \subseteq Subscriptions
    /\ startCalls \in 0..MaxStarts
    /\ pendingFeedback \in 0..gatewayCalls
    /\ Range(navigations) \subseteq {Home, FeedbackRoute(interviewId)}
    /\ emitted \in 0..MaxEvents
    /\ Len(delivered) <= MaxMessages

IsPrefix(s, t) == Len(s) <= Len(t) /\ SubSeq(t, 1, Len(s)) = s

\* The final transcripts among a sequence of message events, in order, each
\* as {role, content}.
RECURSIVE FinalUtterances(_)
FinalUtterances(events) ==
    IF events = <<>> THEN <<>>
    ELSE LET m == Head(events)
             rest == FinalUtterances(Tail(events))
         IN  IF m.type = "transcript" /\ m.transcriptType = "final"
               THEN <<[role |-> m.role, content |-> m.transcript]>> \o rest
               ELSE rest

\* The terminal actions taken so far: pushes of the home route in the
\* generate flow, createFeedback calls in the interview flow.
TerminalActions ==
    IF type = "generate" THEN Len(navigations) ELSE gatewayCalls

\* C1: every change of callStatus is INACTIVE -> CONNECTING, CONNECTING ->
\* ACTIVE or ACTIVE -> FINISHED; in particular FINISHED is never left.
C1_StatusMonotonic ==
    [][callStatus' # callStatus =>
          <<callStatus, callStatus'>> \in
              { <<INACTIVE, CONNECTING>>, <<CONNECTING, ACTIVE>>,
                <<ACTIVE, FINISHED>> }]_vars

\* C2: at most one terminal action is taken in a session, and exactly one
\* has been taken whenever callStatus is FINISHED.
C2_TerminalActionOnce ==
    /\ TerminalActions <= 1
    /\ callStatus = FINISHED => TerminalActions = 1

\* C3: messages is always the final transcripts among the delivered message
\* events, in arrival order and unchanged, and every step extends it.
C3_TranscriptIsFinals ==
    /\ [](messages = FinalUtterances(delivered))
    /\ [][IsPrefix(messages, messages')]_vars

\* C3 witness: a final transcript was kept twice, with a discarded message
\* event between its two arrivals.
C3_Witness ==
    /\ Len(delivered) = 3
    /\ Len(messages) = 2
    /\ messages[1] = messages[2]
    /\ delivered[2].transcriptType # "final"

\* C4: a message event that is not a final transcript leaves messages
\* unchanged, whatever callStatus is.
C4_NonFinalIgnored ==
    [][\A m \in Messages :
          (EmitMessage(m) /\ (m.type # "transcript" \/ m.transcriptType # "final"))
              => messages' = messages]_vars

\* C4 witness: with the call finished, a message event that is no final
\* transcript was delivered after a final one and messages still holds
\* that one utterance.
C4_Witness ==
    /\ callStatus = FINISHED
    /\ Len(delivered) = 2
    /\ delivered[1].type = "transcript" /\ delivered[1].transcriptType = "final"
    /\ delivered[2].transcriptType # "final"
    /\ messages = <<[role |-> delivered[1].role,
                     content |-> delivered[1].transcript]>>

\* C5: createFeedback is called only in a render of the interview flow
\* whose callStatus is FINISHED; the generate flow never calls it.
C5_GatewayOnlyReviewFinished ==
    /\ [](type = "generate" => gatewayCalls = 0)
    /\ [][gatewayCalls' # gatewayCalls =>
              (type # "generate" /\ callStatus' = FINISHED)]_vars

\* C5 witness: a generate session finished and went home without a call of
\* createFeedback.
C5_Witness ==
    /\ type = "generate"
    /\ callStatus = FINISHED
    /\ navigations = <<Home>>
    /\ gatewayCalls = 0

\* C6: in the interview flow, once createFeedback returned success with a
\* feedbackId, every route pushed in the session is the feedback view of
\* the interviewId prop, and the home route is not pushed.
C6_SuccessNavigatesToFeedback ==
    (type # "generate" /\ \E r \in results : r.success /\ r.feedbackId # Undefined)
        => /\ navigations # <<>>
           /\ Range(navigations) = {FeedbackRoute(interviewId)}

\* C7: in the interview flow, once createFeedback returned success = false
\* or no feedbackId, the only route pushed in the session is home, the
\* failure was logged and no rejection was left unhandled.
C7_FailureNavigatesHome ==
    (type # "generate" /\ \E r \in results : ~(r.success /\ r.feedbackId # Undefined))
        => /\ navigations # <<>>
           /\ Range(navigations) = {Home}
           /\ "Error saving feedback" \in logs

\* C8: after the unmount none of the six subscriptions is registered, and
\* no step changes callStatus, messages or isSpeaking.
C8_TeardownUnsubscribes ==
    /\ [](~mounted => listeners \cap Subscriptions = {})
    /\ [][~mounted => UNCHANGED <<callStatus, messages, isSpeaking>>]_vars

\* C8 witness: transport events were emitted, and since they left no trace
\* in the component they were all emitted after the unmount.
C8_Witness ==
    /\ ~mounted
    /\ emitted = MaxEvents
    /\ callStatus = INACTIVE
    /\ delivered = <<>>
    /\ logs = {}

\* C9: vapi.start is called at most once in a session.
C9_SingleOpen == startCalls <= 1

\* C10: a session whose open failed, or whose transport reported an error,
\* while callStatus was CONNECTING eventually pushes a route (or is
\* unmounted first).
C10_FailureReachesNavigation ==
    (mounted /\ callStatus = CONNECTING /\ (unhandled \/ "Error:" \in logs))
        ~> (navigations # <<>> \/ ~mounted)

\* The bulleted list of C11, built from its last line backwards.
RECURSIVE BulletLines(_)
BulletLines(items) ==
    IF Len(items) = 0 THEN ""
    ELSE LET front == SubSeq(items, 1, Len(items) - 1)
             line == "- " \o items[Len(items)]
         IN  IF Len(front) = 0 THEN line
                               ELSE BulletLines(front) \o "\n" \o line

\* C11: in the interview flow vapi.start gets the single variable
\* questions: the questions of the prop in their order, each after "- ",
\* with a newline between two of them and none at the end, and the empty
\* string when the prop is absent or empty.
C11_QuestionsFormatted ==
    type # "generate" =>
        \A a \in startArgs :
            /\ DOMAIN a.variableValues = {"questions"}
            /\ a.variableValues.questions =
                   (IF questions.given THEN BulletLines(questions.items) ELSE "")
            /\ questions = Given(TwoQuestions) =>
                   a.variableValues.questions =
                       "- Tell me about yourself\n- Why this role?"
            /\ (~questions.given \/ questions.items = <<>>) =>
                   a.variableValues.questions = ""

\* C11 witness: an interview was started with the two questions.
C11_Witness ==
    /\ type # "generate"
    /\ questions = Given(TwoQuestions)
    /\ startArgs # {}

\* C12: the generate flow starts the workflow with exactly username and
\* userid, the interview flow starts the interviewer with exactly
\* questions, whatever the other props are.
C12_StartArgumentsByMode ==
    \A a \in startArgs :
        IF type = "generate"
          THEN /\ a.target = WorkflowId
               /\ a.variableValues = [username |-> userName, userid |-> userId]
          ELSE /\ a.target = Interviewer
               /\ DOMAIN a.variableValues = {"questions"}

\* C12 witness: a generate session that was given questions was started.
C12_Witness ==
    /\ type = "generate"
    /\ questions.given
    /\ startArgs # {}

\* C13: at most one createFeedback call is outstanding at any time.
C13_SingleInFlight == pendingFeedback <= 1

\* C14: a stop click happens in ACTIVE, sets FINISHED and calls vapi.stop
\* in the same step; every other step from ACTIVE to FINISHED is the
\* delivery of a call-end event.
C14_StopOrCallEnd ==
    /\ [][handleDisconnect =>
              /\ callStatus = ACTIVE /\ callStatus' = FINISHED
              /\ stopCalls' = stopCalls + 1]_vars
    /\ [][(callStatus = ACTIVE /\ callStatus' = FINISHED) =>
              (stopCalls' = stopCalls + 1 \/ EmitCallEnd)]_vars

\* C14 witness: the call was active and was ended by a stop click, no
\* call-end event having been emitted.
C14_Witness ==
    /\ callStatus = FINISHED
    /\ stopCalls = 1
    /\ emitted = 1

\* C15: an error event changes neither callStatus, messages nor
\* isSpeaking, calls neither vapi.start, vapi.stop nor createFeedback and
\* pushes no route, whatever callStatus is.
C15_ErrorOnlyLogged ==
    [][EmitError =>
          UNCHANGED <<callStatus, messages, isSpeaking, startCalls, startArgs,
                      stopCalls, gatewayCalls, pendingFeedback,
                      navigations>>]_vars

\* C15 witness: an error was delivered to a started session that is still
\* connecting.
C15_Witness ==
    /\ callStatus = CONNECTING
    /\ startCalls = 1
    /\ logs = {"Error:"}
    /\ navigations = <<>>

\* The kinds of step C16 names: callStatus becomes v, an utterance is
\* appended, a terminal action is taken.
StatusChange(v) == callStatus # v /\ callStatus' = v
Appended == Len(messages') = Len(messages) + 1
TerminalAction ==
    \/ gatewayCalls' = gatewayCalls + 1
    \/ type = "generate" /\ Len(navigations') = Len(navigations) + 1

\* When each kind of step can be taken, in terms that leave isSpeaking out.
CanConnect ==
    mounted /\ callStatus \in {INACTIVE, FINISHED} /\ startCalls < MaxStarts
CanActivate == mounted /\ callStatus # ACTIVE /\ emitted < MaxEvents
CanFinish ==
    mounted /\ callStatus # FINISHED
            /\ (emitted < MaxEvents \/ callStatus = ACTIVE)
CanAppend == mounted /\ emitted < MaxEvents /\ MessageEvents < MaxMessages
CanTerminate == IF callStatus = FINISHED THEN CanAppend ELSE CanFinish

\* C16: a delivered speech-start sets isSpeaking, a delivered speech-end
\* clears it, and neither changes callStatus or messages, calls
\* createFeedback or pushes a route; and whether callStatus can change, an
\* utterance can be appended or a terminal action can be taken never
\* depends on isSpeaking: each is possible exactly when a condition on the
\* rest of the state holds.
C16_SpeakingOnlyPresentation ==
    /\ [][(EmitSpeechStart /\ <<"speech-start", "onSpeechStart">> \in listeners)
              => /\ isSpeaking' = TRUE
                 /\ UNCHANGED <<callStatus, messages, gatewayCalls,
                                pendingFeedback, navigations, startCalls,
                                stopCalls>>]_vars
    /\ [][(EmitSpeechEnd /\ <<"speech-end", "onSpeechEnd">> \in listeners)
              => /\ isSpeaking' = FALSE
                 /\ UNCHANGED <<callStatus, messages, gatewayCalls,
                                pendingFeedback, navigations, startCalls,
                                stopCalls>>]_vars
    /\ [][/\ ~StatusChange(INACTIVE)
          /\ StatusChange(CONNECTING) => CanConnect
          /\ StatusChange(ACTIVE) => CanActivate
          /\ StatusChange(FINISHED) => CanFinish
          /\ Appended => CanAppend
          /\ TerminalAction => CanTerminate]_vars
    /\ [](/\ CanConnect => ENABLED (Next /\ StatusChange(CONNECTING))
          /\ CanActivate => ENABLED (Next /\ StatusChange(ACTIVE))
          /\ CanFinish => ENABLED (Next /\ StatusChange(FINISHED))
          /\ CanAppend => ENABLED (Next /\ Appended)
          /\ CanTerminate => ENABLED (Next /\ TerminalAction))

\* C16 witness: the assistant is speaking in a finished session that has
\* taken its terminal action.
C16_Witness ==
    /\ isSpeaking
    /\ callStatus = FINISHED
    /\ "speech start" \in logs
    /\ (gatewayCalls = 1 \/ navigations = <<Home>>)

\* C17: while the message listener is registered, a delivered final
\* transcript is appended to messages whatever callStatus is (INACTIVE,
\* CONNECTING, ACTIVE or FINISHED), and callStatus is left as it was; so a
\* final transcript delivered after handleDisconnect still extends messages.
C17_IngestionNotGated ==
    [][\A m \in FinalMessages :
          (EmitMessage(m) /\ <<"message", "onMessage">> \in listeners)
              => /\ messages' = Append(messages, [role |-> m.role,
                                                  content |-> m.transcript])
                 /\ callStatus' = callStatus]_vars

\* C17 witness: the only utterance of an interview session arrived after
\* the stop request, in status FINISHED (the second createFeedback call is
\* the effect run that the append caused).
C17_Witness ==
    /\ type # "generate"
    /\ startCalls = 0
    /\ stopCalls = 1
    /\ emitted = 2
    /\ callStatus = FINISHED
    /\ Len(messages) = 1
    /\ gatewayCalls = 2

\* C18: every router.push happens with callStatus FINISHED, never while it
\* is INACTIVE, CONNECTING or ACTIVE, and in a generate session every
\* pushed route is the home route.
C18_NavigationOnlyFinished ==
    [][navigations' # navigations
          => /\ callStatus' = FINISHED
             /\ type = "generate"
                    => navigations'[Len(navigations')] = Home]_vars

\* C19: the End button can be clicked only while callStatus is ACTIVE, so
\* vapi.stop is called only from ACTIVE; the Call button can be clicked in
\* every other status (INACTIVE, CONNECTING, FINISHED) of the mounted
\* component, and not in ACTIVE.
C19_ButtonsByStatus ==
    /\ [](ENABLED handleDisconnect => callStatus = ACTIVE)
    /\ [][stopCalls' # stopCalls => callStatus = ACTIVE]_vars
    /\ [](\A st \in CallStatus \ {ACTIVE} :
              (mounted /\ callStatus = st /\ startCalls < MaxStarts)
                  => ENABLED (\E resolved \in BOOLEAN : handleCall(resolved)))
    /\ [](ENABLED (\E resolved \in BOOLEAN : handleCall(resolved))
              => callStatus # ACTIVE)

\* C19 witness: the Call button was clicked again after the End button
\* finished the first call.
C19_Witness ==
    /\ stopCalls = 1
    /\ startCalls = 2
    /\ emitted = 1
    /\ callStatus = CONNECTING

\* C20: a createFeedback call never rejects; its value has success TRUE
\* exactly when scoring and the write both went through, and then it
\* carries the id of a document that is in the collection; every failure
\* is the value {success: FALSE} without a feedbackId; and when scoring
\* fails the collection is left as it was.
C20_FailureIsAValue ==
    [][\A scoringOk \in BOOLEAN, writeOk \in BOOLEAN :
          createFeedbackReturns(scoringOk, writeOk)
              => LET result == createFeedback(feedbackId, feedbackDocs,
                                              scoringOk, writeOk)
                 IN  /\ unhandled' = unhandled
                     /\ result \in results'
                     /\ result.success <=> (scoringOk /\ writeOk)
                     /\ result.success
                            => /\ result.feedbackId # Undefined
                               /\ result.feedbackId \in feedbackDocs'
                     /\ ~result.success => result.feedbackId = Undefined
                     /\ ~scoringOk => feedbackDocs' = feedbackDocs]_vars

\* C20 witness: one session got a failure back as a value and a success
\* with the id of a written document, and no rejection was left unhandled.
C20_Witness ==
    /\ ~unhandled
    /\ pendingFeedback = 0
    /\ [success |-> FALSE, feedbackId |-> Undefined] \in results
    /\ \E r \in results : r.success /\ r.feedbackId \in feedbackDocs
    /\ navigations = <<FeedbackRoute(interviewId), Home>>

\* The number of createFeedback calls of the session that returned success:
\* each of them, and nothing else, pushed the feedback route.
SuccessfulCalls ==
    Cardinality({ i \in 1..Len(navigations) :
                    navigations[i] = FeedbackRoute(interviewId) })

\* The ids that successful calls returned.
ReturnedIds == { r.feedbackId : r \in { x \in results : x.success } }

\* C21: with a feedbackId given, every successful createFeedback call
\* returns that id and the collection keeps the one document it had,
\* however often the call is repeated; without one, every successful call
\* returns an id no earlier call returned and adds one document, so n
\* successful calls leave n documents.
C21_OverwriteOrFresh ==
    /\ feedbackId # Undefined
          => /\ ReturnedIds \subseteq {feedbackId}
             /\ feedbackDocs = {feedbackId}
    /\ feedbackId = Undefined
          => /\ Cardinality(ReturnedIds) = SuccessfulCalls
             /\ feedbackDocs = ReturnedIds
             /\ Cardinality(feedbackDocs) = SuccessfulCalls

\* C21 witness: two successful calls of a session without a feedbackId
\* left two documents.
C21_Witness ==
    /\ feedbackId = Undefined
    /\ pendingFeedback = 0
    /\ navigations = <<FeedbackRoute(interviewId), FeedbackRoute(interviewId)>>
    /\ Cardinality(feedbackDocs) = 2

====
